---- MODULE Spec2Model ----
(***************************************************************************)
(* Model of citest/service_testing/http_agent.py: the HTTP response value, *)
(* the operation status, the HTTP agent with its transmission routine, and *)
(* the POST / DELETE operations with their execute() method.               *)
(*                                                                         *)
(* Text values (paths, payloads, bodies, URLs) are sequences of tokens, so *)
(* the empty string is <<>>.  A Python value that may be None is modelled  *)
(* as a sequence of length at most one: None is <<>> and a present value v *)
(* is <<v>>, so that the empty string <<<<>>>> differs from None.          *)
(***************************************************************************)
EXTENDS Integers, Sequences, FiniteSets, TLC

VARIABLES op, history, call, heap

vars == <<op, history, call, heap>>

----------------------------------------------------------------------------
(* Bounds of the model *)

(* Longest path string handed to the agent's post / delete / get *)
MaxPathLen == 2

(* Most execute() calls on the operation that return a status *)
MaxExecutes == 2

----------------------------------------------------------------------------
(* Python values *)

None == <<>>

Some(v) == <<v>>

Val(o) == o[1]

EmptyStr == <<>>

(* Path strings: every string over PathChars of length at most MaxPathLen *)
PathChars == {"/", "w"}

RECURSIVE StringsUpTo(_)
StringsUpTo(n) ==
  IF n = 0 THEN {EmptyStr}
  ELSE LET shorter == StringsUpTo(n - 1)
       IN shorter \cup {Append(s, c) : s \in {t \in shorter : Len(t) = n - 1},
                                       c \in PathChars}

Paths == StringsUpTo(MaxPathLen)

(* Paths given to operations: the empty path, a bare name and a name with  *)
(* a leading slash.                                                        *)
OpPaths == {EmptyStr, <<"w">>, <<"/", "w">>}

Payloads == {EmptyStr, <<"d">>}

Bodies == {EmptyStr, <<"b">>}

(* Reply codes a server can answer with; 200, 299 and 300 are at the       *)
(* boundaries of the 2xx range.                                            *)
ReplyCodes == {200, 299, 300, 404}

FailureReasons == {<<"refused">>}

(* The agents of the session.  Each HttpAgent has its own network address. *)
HttpAgents == {"A", "B"}

(* An object that is not an HttpAgent and has no post/delete attribute *)
NotAnAgent == "X"

AgentArgs == {None} \cup {Some(a) : a \in HttpAgents \cup {NotAnAgent}}

StatusClasses == {"HttpOperationStatus", "SynchronousHttpOperationStatus"}

(* A keyword argument: left out of the call, or given with a value *)
Omitted == [given |-> FALSE, value |-> None]

Given(v) == [given |-> TRUE, value |-> v]

Default(arg, dflt) == IF arg.given THEN arg.value ELSE dflt

StatusClassArgs == {Omitted} \cup {Given(Some(c)) : c \in StatusClasses}

Traces == BOOLEAN

(* What the network does with one request: an HTTP reply with a code and a *)
(* body, or a transport failure before any reply.                          *)
Reply(code, body) ==
  [kind |-> "reply", code |-> code, body |-> body, reason |-> EmptyStr]

Failure(reason) ==
  [kind |-> "fail", code |-> 0, body |-> EmptyStr, reason |-> reason]

Wires == {Reply(c, b) : c \in ReplyCodes, b \in Bodies}
           \cup {Failure(r) : r \in FailureReasons}

NoWire == [kind |-> "none", code |-> 0, body |-> EmptyStr, reason |-> EmptyStr]

----------------------------------------------------------------------------
(* class HttpResponseType *)

HttpResponseType(retcode, output, error) ==
  [retcode |-> retcode, output |-> output, error |-> error]

(* ok() with the upper end of the range included *)
ok_UpperInclusive(self) == self.retcode >= 200 /\ self.retcode <= 300

ok(self) == self.retcode >= 200 /\ self.retcode < 300

----------------------------------------------------------------------------
(* class HttpOperationStatus *)

HttpOperationStatus(cls, id, operation, http_response) ==
  [cls |-> cls, id |-> id, operation |-> operation,
   http_response |-> http_response]

finished(self) == TRUE

finished_ok(self) == ok(self.http_response)

detail(self) == self.http_response.output

error(self) == self.http_response.error

----------------------------------------------------------------------------
(* class HttpAgent *)

protocol(self) == <<"http">>

address(self) == IF self = "A" THEN <<"hostA">> ELSE <<"hostB">>

agent_status_class(self) == "HttpOperationStatus"

(* urllib2.urlopen by its documented contract: it returns the response of  *)
(* a 2xx reply, raises HTTPError for any other reply and URLError when the *)
(* request cannot be sent (connection refused, name not resolved).  These  *)
(* are the three outcomes the try statement of lines 181-196 provides for. *)
urlopen(wire) ==
  IF wire.kind = "fail" THEN "URLError"
  ELSE IF wire.code >= 200 /\ wire.code < 300 THEN "none"
  ELSE "HTTPError"

(* str(e) of a URLError *)
StrURLError(reason) == <<"<urlopen error ">> \o reason \o <<">">>

(* if path[0] == '/': path = path[1:]   (path[0] of '' raises IndexError) *)
StripLeadingSlash(path) ==
  IF Len(path) = 0 THEN [raised |-> "IndexError", path |-> path]
  ELSE IF path[1] = "/" THEN [raised |-> "none", path |-> Tail(path)]
  ELSE [raised |-> "none", path |-> path]

(* '{0}://{1}/{2}'.format(protocol, address, path) *)
FormatUrl(proto, addr, path) == proto \o <<"://">> \o addr \o <<"/">> \o path

Request(url, http_type, data, headers, via) ==
  [url |-> url, method |-> http_type, data |-> data, headers |-> headers,
   via |-> via]

(* The outcome of urlopen as a response value (lines 183-184, 188-189 and *)
(* 195-196)                                                                *)
Classified(wire, exc) ==
  IF exc = "none"
    THEN HttpResponseType(wire.code, Some(wire.body), None)
  ELSE IF exc = "HTTPError"
    THEN HttpResponseType(wire.code, None, Some(wire.body))
  ELSE HttpResponseType(-1, None, Some(StrURLError(wire.reason)))

(* The try/except with no handler for URLError: the exception escapes *)
TryUrlopen_NoURLErrorHandler(wire) ==
  LET exc == urlopen(wire)
  IN [raised |-> IF exc = "URLError" THEN "URLError" ELSE "none",
      attempts |-> 1,
      response |-> Classified(wire, exc)]

(* The try/except sending the request a second time after a failure *)
TryUrlopen_RetryOnFailure(wire) ==
  LET exc == urlopen(wire)
  IN [raised |-> "none",
      attempts |-> IF exc = "none" THEN 1 ELSE 2,
      response |-> Classified(wire, exc)]

(* The try/except whose URLError handler sets the code but not the error *)
TryUrlopen_ErrorNotSet(wire) ==
  LET exc == urlopen(wire)
  IN [raised |-> "none",
      attempts |-> 1,
      response |-> IF exc = "URLError"
                     THEN HttpResponseType(-1, None, None)
                     ELSE Classified(wire, exc)]

(* The try/except around urlopen: one attempt, and each of the three       *)
(* outcomes of urlopen becomes a response value; nothing is re-raised.     *)
TryUrlopen(wire) ==
  LET exc == urlopen(wire)
  IN [raised |-> "none",
      attempts |-> 1,
      response |-> Classified(wire, exc)]

NoSend ==
  [raised |-> "none", response |-> None, request |-> None, nreq |-> 0,
   logged |-> 0]

send_http_request(self, path, http_type, data, headers, trace, wire) ==
  LET hdrs == IF headers = None THEN {} ELSE Val(headers)
      stripped == StripLeadingSlash(path)
      url == FormatUrl(protocol(self), address(self), stripped.path)
      req == Request(url, http_type, data, hdrs, self)
      attempt == TryUrlopen(wire)
  IN IF stripped.raised # "none"
       THEN [NoSend EXCEPT !.raised = stripped.raised]
     ELSE IF attempt.raised # "none"
       THEN [raised |-> attempt.raised,
             response |-> None,
             request |-> Some(req),
             nreq |-> attempt.attempts,
             logged |-> IF trace THEN 1 ELSE 0]
     ELSE [raised |-> "none",
           response |-> Some(attempt.response),
           request |-> Some(req),
           nreq |-> attempt.attempts,
           logged |-> IF trace THEN 2 ELSE 0]

ContentType == {<<"Content-Type", "application/json">>}

post(self, path, data, trace, wire) ==
  send_http_request(self, path, "POST", Some(data), Some(ContentType),
                    trace, wire)

delete(self, path, data, trace, wire) ==
  send_http_request(self, path, "DELETE", Some(data), Some(ContentType),
                    trace, wire)

get(self, path, trace, wire) ==
  send_http_request(self, path, "GET", None, None, trace, wire)

new_invoke_status(self, id, operation, http_response) ==
  HttpOperationStatus(agent_status_class(self), id, operation, http_response)

----------------------------------------------------------------------------
(* class BaseHttpOperation and its subclasses HttpPostOperation and        *)
(* HttpDeleteOperation (verb "POST" / "DELETE")                            *)

Verbs == {"POST", "DELETE"}

Title == "title"

NoOperation ==
  [exists |-> FALSE, verb |-> "POST", title |-> Title, path |-> EmptyStr,
   data |-> EmptyStr, agent |-> None, status_class |-> None]

(* AgentOperation.__init__(title, agent) of the base framework: stores the *)
(* title and the agent.                                                    *)
AgentOperation_init(verb, title, http_agent) ==
  [NoOperation EXCEPT !.exists = TRUE, !.verb = verb, !.title = title,
                      !.agent = http_agent]

(* AgentOperation.bind_agent(agent) of the base framework *)
bind_agent(self, agent) == [self EXCEPT !.agent = agent]

isinstance_HttpAgent(agent) == agent # None /\ Val(agent) \in HttpAgents

(* BaseHttpOperation.__init__; status_class defaults to HttpOperationStatus *)
BaseHttpOperation_init(verb, title, path, data, http_agent, status_class) ==
  LET self == AgentOperation_init(verb, title, http_agent)
  IN IF http_agent # None /\ ~isinstance_HttpAgent(http_agent)
       THEN [raised |-> "TypeError", self |-> NoOperation]
       ELSE [raised |-> "none",
             self |-> [self EXCEPT
                         !.path = path,
                         !.data = data,
                         !.status_class =
                            Default(status_class, Some("HttpOperationStatus"))]]

(* HttpAgent.new_post_operation / new_delete_operation: status_class       *)
(* defaults to None and is handed to the constructor as given.             *)
new_operation(self, verb, title, path, data, status_class) ==
  BaseHttpOperation_init(verb, title, path, data, Some(self),
                         Given(Default(status_class, None)))

new_post_operation(self, title, path, data, status_class) ==
  new_operation(self, "POST", title, path, data, status_class)

new_delete_operation(self, title, path, data, status_class) ==
  new_operation(self, "DELETE", title, path, data, status_class)

NoInvoke ==
  [raised |-> "none", status |-> None, response |-> None, request |-> None,
   nreq |-> 0, logged |-> 0]

(* _do_invoke(self, agent, trace): agent.post / agent.delete on the agent  *)
(* ARGUMENT, then agent._new_invoke_status(self, http_response).           *)
do_invoke(self, agent, trace, wire, id) ==
  IF ~isinstance_HttpAgent(agent)
    THEN [NoInvoke EXCEPT !.raised = "AttributeError"]
    ELSE LET r == IF self.verb = "POST"
                    THEN post(Val(agent), self.path, self.data, trace, wire)
                    ELSE delete(Val(agent), self.path, self.data, trace, wire)
         IN IF r.raised # "none"
              THEN [NoInvoke EXCEPT !.raised = r.raised,
                                    !.request = r.request,
                                    !.nreq = r.nreq,
                                    !.logged = r.logged]
              ELSE [raised |-> "none",
                    status |-> Some(new_invoke_status(Val(agent), id,
                                       self.title, Val(r.response))),
                    response |-> r.response,
                    request |-> r.request,
                    nreq |-> r.nreq,
                    logged |-> r.logged]

(* execute() binding whatever agent it is given, with no type check *)
execute_NoTypeCheck(self, agent, trace, wire, id) ==
  LET unbound == self.agent = None
      bound == IF unbound THEN bind_agent(self, agent) ELSE self
      r == do_invoke(bound, agent, trace, wire, id)
  IN IF r.raised # "none"
       THEN [self |-> bound, result |-> r]
       ELSE [self |-> bound,
             result |-> [r EXCEPT !.logged = @ + (IF trace THEN 1 ELSE 0)]]

(* execute() binding the agent argument whenever one is given, also when   *)
(* the operation is already bound                                          *)
execute_Rebind(self, agent, trace, wire, id) ==
  LET unbound == self.agent = None
      bound == IF unbound \/ isinstance_HttpAgent(agent)
                 THEN bind_agent(self, agent) ELSE self
      r == do_invoke(bound, agent, trace, wire, id)
  IN IF unbound /\ ~isinstance_HttpAgent(agent)
       THEN [self |-> self, result |-> [NoInvoke EXCEPT !.raised = "TypeError"]]
     ELSE IF r.raised # "none"
       THEN [self |-> bound, result |-> r]
     ELSE [self |-> bound,
           result |-> [r EXCEPT !.logged = @ + (IF trace THEN 1 ELSE 0)]]

(* execute(self, agent=None, trace=True) *)
execute(self, agent, trace, wire, id) ==
  LET unbound == self.agent = None
      bound == IF unbound THEN bind_agent(self, agent) ELSE self
      r == do_invoke(bound, agent, trace, wire, id)
  IN IF unbound /\ ~isinstance_HttpAgent(agent)
       THEN [self |-> self, result |-> [NoInvoke EXCEPT !.raised = "TypeError"]]
     ELSE IF r.raised # "none"
       THEN [self |-> bound, result |-> r]
     ELSE [self |-> bound,
           result |-> [r EXCEPT !.logged = @ + (IF trace THEN 1 ELSE 0)]]

----------------------------------------------------------------------------
(* State: the operation under test, the record of the last call made and   *)
(* what it returned or raised, the number of status objects created so     *)
(* far, and the history of the operation (how it was made, how many of its *)
(* execute() calls returned and how many requests they sent).              *)

NoCall ==
  [kind |-> "none", agent_arg |-> None, self_agent |-> None,
   path |-> EmptyStr, trace |-> FALSE, wire |-> NoWire,
   raised |-> "none", status |-> None, response |-> None, request |-> None,
   nreq |-> 0, logged |-> 0]

NoHistory ==
  [by |-> "none", status_class_arg |-> Omitted, returned |-> 0, requests |-> 0]

Init ==
  /\ op = NoOperation
  /\ history = NoHistory
  /\ call = NoCall
  /\ heap = 0

(* A session uses the agents directly, then constructs the operation       *)
(* under test, then executes it.  A constructor call that raises leaves no *)
(* operation behind.                                                       *)
Constructed(kind, by, made, agent_arg, path, status_class) ==
  /\ op' = IF made.raised = "none" THEN made.self ELSE op
  /\ history' = IF made.raised = "none"
                  THEN [NoHistory EXCEPT !.by = by,
                                         !.status_class_arg = status_class]
                  ELSE history
  /\ call' = [NoCall EXCEPT !.kind = kind, !.agent_arg = agent_arg,
                            !.path = path, !.raised = made.raised]
  /\ UNCHANGED heap

NewPostOperation ==
  /\ ~op.exists
  /\ \E a \in HttpAgents, path \in OpPaths, data \in Payloads,
     status_class \in StatusClassArgs :
    Constructed("new_post_operation", "factory",
                new_post_operation(a, Title, path, data, status_class),
                Some(a), path, status_class)

NewDeleteOperation ==
  /\ ~op.exists
  /\ \E a \in HttpAgents, path \in OpPaths, data \in Payloads,
     status_class \in StatusClassArgs :
    Constructed("new_delete_operation", "factory",
                new_delete_operation(a, Title, path, data, status_class),
                Some(a), path, status_class)

(* HttpPostOperation(...) / HttpDeleteOperation(...) called directly *)
Construct ==
  /\ ~op.exists
  /\ \E verb \in Verbs, path \in OpPaths, data \in Payloads,
     http_agent \in AgentArgs, status_class \in StatusClassArgs :
    Constructed("constructor", "constructor",
                BaseHttpOperation_init(verb, Title, path, data, http_agent,
                                       status_class),
                http_agent, path, status_class)

Execute ==
  /\ op.exists
  /\ heap < MaxExecutes
  /\ \E agent \in AgentArgs, trace \in Traces, wire \in Wires :
     \E e \in {execute(op, agent, trace, wire, heap + 1)} :
     LET r == e.result
     IN
       /\ op' = e.self
       /\ history' = [history EXCEPT
                        !.returned = @ + (IF r.raised = "none" THEN 1 ELSE 0),
                        !.requests = @ + r.nreq]
       /\ heap' = heap + (IF r.status # None THEN 1 ELSE 0)
       /\ call' = [kind |-> "execute", agent_arg |-> agent,
                   self_agent |-> op.agent, path |-> op.path,
                   trace |-> trace,
                   wire |-> IF r.nreq > 0 THEN wire ELSE NoWire,
                   raised |-> r.raised, status |-> r.status,
                   response |-> r.response, request |-> r.request,
                   nreq |-> r.nreq, logged |-> r.logged]

(* agent.post / agent.delete / agent.get called directly *)
Sent(kind, a, path, trace, wire, r) ==
  /\ call' = [kind |-> kind, agent_arg |-> Some(a), self_agent |-> None,
              path |-> path, trace |-> trace,
              wire |-> IF r.nreq > 0 THEN wire ELSE NoWire,
              raised |-> r.raised, status |-> None,
              response |-> r.response, request |-> r.request,
              nreq |-> r.nreq, logged |-> r.logged]
  /\ UNCHANGED <<op, history, heap>>

Post ==
  /\ ~op.exists
  /\ \E a \in HttpAgents, path \in Paths, data \in Payloads, trace \in Traces,
     wire \in Wires :
     \E r \in {post(a, path, data, trace, wire)} :
       Sent("post", a, path, trace, wire, r)

Delete ==
  /\ ~op.exists
  /\ \E a \in HttpAgents, path \in Paths, data \in Payloads, trace \in Traces,
     wire \in Wires :
     \E r \in {delete(a, path, data, trace, wire)} :
       Sent("delete", a, path, trace, wire, r)

Get ==
  /\ ~op.exists
  /\ \E a \in HttpAgents, path \in Paths, trace \in Traces, wire \in Wires :
     \E r \in {get(a, path, trace, wire)} :
       Sent("get", a, path, trace, wire, r)

Next ==
  \/ NewPostOperation
  \/ NewDeleteOperation
  \/ Construct
  \/ Execute
  \/ Post
  \/ Delete
  \/ Get

Spec == Init /\ [][Next]_vars

----------------------------------------------------------------------------
(* Properties *)

ExecuteCalled == call.kind = "execute"

DirectCalled == call.kind \in {"post", "delete", "get"}

Is2xx(code) == code \in 200..299

StartsWithSlash(path) == Len(path) > 0 /\ path[1] = "/"

(* C1: when the operation already has a bound agent, execute() called with *)
(* no agent argument (trace on or off) raises nothing and returns a status *)
(* built from the request sent by the bound agent.                         *)
C1_BoundExecuteWithoutAgentCompletes ==
  (ExecuteCalled /\ call.self_agent # None /\ call.agent_arg = None)
    => /\ call.raised = "none"
       /\ call.status # None
       /\ call.request # None
       /\ Val(call.request).via = Val(call.self_agent)

(* C2: every request sent by execute() goes through the operation's bound  *)
(* agent, with the operation's verb, path and data, whatever agent         *)
(* argument the call was given.                                            *)
C2_RequestSentThroughBoundAgent ==
  (ExecuteCalled /\ call.nreq > 0)
    => /\ op.agent # None
       /\ Val(call.request).via = Val(op.agent)
       /\ Val(call.request).method = op.verb
       /\ Val(call.request).data = Some(op.data)
       /\ Val(call.request).url =
            FormatUrl(protocol(Val(op.agent)), address(Val(op.agent)),
                      IF StartsWithSlash(op.path) THEN Tail(op.path)
                                                  ELSE op.path)

(* C3: an operation made by new_post_operation / new_delete_operation has  *)
(* as status_class the class passed to the factory, or the agent's default *)
(* status class when none was passed (never None), and the status returned *)
(* by executing it is an instance of that class.                           *)
C3_FactoryStatusClass ==
  history.by = "factory"
    => /\ op.status_class # None
       /\ op.status_class =
            Default(history.status_class_arg,
                    Some(agent_status_class(Val(op.agent))))
       /\ (ExecuteCalled /\ call.status # None)
            => Val(call.status).cls = Val(op.status_class)

(* C4: for every HTTP reply the response value, and the status wrapping    *)
(* it, are classified by the reply code: code equals the reply code; for a *)
(* 2xx reply ok() and finished_ok hold, output / detail is the body and    *)
(* error is None; for any other reply ok() and finished_ok are false,      *)
(* error is the body and output / detail is None.                          *)
C4_ReplyClassification ==
  call.wire.kind = "reply"
    => /\ call.response # None
       /\ LET r == Val(call.response)
              code == call.wire.code
              body == call.wire.body
          IN /\ r.retcode = code
             /\ Is2xx(code)
                  => ok(r) /\ r.output = Some(body) /\ r.error = None
             /\ ~Is2xx(code)
                  => ~ok(r) /\ r.error = Some(body) /\ r.output = None
             /\ ExecuteCalled
                  => /\ call.status # None
                     /\ LET st == Val(call.status)
                        IN /\ finished(st)
                           /\ finished_ok(st) = Is2xx(code)
                           /\ detail(st) =
                                IF Is2xx(code) THEN Some(body) ELSE None
                           /\ error(st) =
                                IF Is2xx(code) THEN None ELSE Some(body)

C4_Witness ==
  /\ ExecuteCalled
  /\ call.wire = Reply(300, <<"b">>)
  /\ call.status # None
  /\ error(Val(call.status)) = Some(<<"b">>)
  /\ ~finished_ok(Val(call.status))

C6_UnboundExecuteWithoutValidAgentFails ==
  (ExecuteCalled /\ call.self_agent = None
     /\ ~isinstance_HttpAgent(call.agent_arg))
    => /\ call.raised = "TypeError"
       /\ call.nreq = 0
       /\ call.request = None
       /\ call.status = None
       /\ op.agent = None
       /\ history.requests = 0

C6_Witness ==
  /\ ExecuteCalled
  /\ call.self_agent = None
  /\ call.agent_arg = Some(NotAnAgent)
  /\ call.raised = "TypeError"
  /\ op.agent = None

(* C7: every execute() call that returns a status has sent exactly one     *)
(* request, whatever the reply or transport outcome; the requests sent by  *)
(* the operation's execute() calls number the calls that returned; and the *)
(* status returned is a new object holding the response of that request.   *)
C7_OneRequestPerReturnedExecute ==
  [][(call'.kind = "execute" /\ call'.raised = "none")
       => /\ call'.nreq = 1
          /\ history'.requests = history.requests + 1
          /\ history'.returned = history.returned + 1
          /\ history'.requests = history'.returned
          /\ call'.status # None
          /\ Val(call'.status).id \notin 1..heap
          /\ heap' = heap + 1
          /\ Val(call'.status).http_response = Val(call'.response)
          /\ Val(call'.response).retcode =
               IF call'.wire.kind = "reply" THEN call'.wire.code ELSE -1]_vars

C7_Witness ==
  /\ ExecuteCalled
  /\ call.raised = "none"
  /\ history.returned = 2
  /\ history.requests = 2
  /\ Val(call.status).id = 2
  /\ call.wire.kind = "fail"

(* C8: a path without a leading slash, the empty path included, is used    *)
(* unchanged and without error, and a path with a leading slash loses      *)
(* exactly that one slash: the request URL is protocol://address/path, so  *)
(* "/" + p and p give the same URL.                                        *)
C8_PathNormalization ==
  DirectCalled
    => /\ call.raised = "none"
       /\ call.request # None
       /\ Val(call.request).url =
            FormatUrl(protocol(Val(call.agent_arg)),
                      address(Val(call.agent_arg)),
                      IF StartsWithSlash(call.path) THEN Tail(call.path)
                                                    ELSE call.path)

(* C9: across execute() calls an operation that is bound keeps its bound   *)
(* agent, whatever agent argument is given, and an unbound operation       *)
(* becomes bound only to a valid HttpAgent given as the argument.          *)
C9_BindingIsOneTime ==
  [][call'.kind = "execute"
       => /\ op.agent # None => op'.agent = op.agent
          /\ (op.agent = None /\ op'.agent # None)
               => /\ isinstance_HttpAgent(call'.agent_arg)
                  /\ op'.agent = call'.agent_arg]_vars

C9_Witness ==
  /\ ExecuteCalled
  /\ call.self_agent = Some("A")
  /\ call.agent_arg = Some("B")
  /\ call.nreq = 1
  /\ op.agent = Some("A")

====
